---- MODULE Spec2Model ----
(***************************************************************************)
(* Decision-and-replay core of the trading system:                         *)
(*   - Backtesting.run_backtest / _process_signal / metrics                *)
(*       (services/learning/backtesting.py)                                *)
(*   - PaperTradeMode.execute_trade (core/strategy/trade_mode.py)          *)
(*   - PositionManager.execute / monitor_positions / _close_position       *)
(*       (core/strategy/position_manager.py)                               *)
(*                                                                         *)
(* Numbers.  The Python code computes in floats.  The model computes in    *)
(* decimal fixed point, every product/quotient rounded to the nearest      *)
(* unit:                                                                   *)
(*   money (balance, position_size, commission, amount_value)  in cents    *)
(*   prices                                         in whole dollars       *)
(*   stop_loss / take_profit levels                 in 1/1000 dollar       *)
(*     (plus the ulp by which the double product exceeds a whole level)    *)
(*   amounts (units of the asset)                   in 1/10000 unit        *)
(*   percentages given as parameters                in 1/10 percent        *)
(*   pnl_pct and the percentages of the metrics     in 1/10000 percent     *)
(* Statements about money are therefore made up to a tolerance Tol.        *)
(***************************************************************************)
EXTENDS Integers, Sequences, FiniteSets, TLC

\* ------------------------------------------------------------------ bounds
MaxBars == 4          \* rows of market_data a run iterates over
MaxRuns == 3          \* calls of run_backtest on one Backtesting instance
MaxHistory == 4       \* records PaperTradeMode.trade_history may hold
MaxOrders == 4        \* orders the exchange connector may receive
MaxNow == 180         \* last clock reading
Epoch == 60           \* first clock reading (time.time() is far from 0)
TickSeconds == 30     \* seconds between two clock readings
Tol == 5              \* cents of rounding slack allowed in money equalities
MaxThreads == 2       \* loop threads start() may create on one trader

\* --------------------------------------------------------- fixed point
RoundDiv(a, d) == (a + d \div 2) \div d

None == [none |-> TRUE]

Abs(x) == IF x < 0 THEN -x ELSE x

\* ---------------------------------------------------------------- inputs
Actions == {"BUY", "HOLD", "SELL"}
Prices == {94, 96, 98, 100, 110}
\* the smaller alphabet of rows used where several runs are composed
RerunActions == {"BUY", "HOLD"}
RerunPrices == {94, 100, 110}

\* strategy_params dictionaries handed to run_backtest; percentages in 1/10 %
Moderada == [stop_loss_pct |-> 50, take_profit_pct |-> 100, fee_pct |-> 1, position_size_pct |-> 200]
Scenario == [fee_pct |-> 1, position_size_pct |-> 200]
StrategyParams == {Moderada, Scenario}

\* strategy_params.get(key, default)
DefaultParams == [stop_loss_pct |-> 20, take_profit_pct |-> 40, fee_pct |-> 1, position_size_pct |-> 100]
Get(params, key) == IF key \in DOMAIN params THEN params[key] ELSE DefaultParams[key]

InitialCapital == 1000000

VARIABLES
    trading_mode,      \* main(): which harness drives the position logic
    bt_pc,             \* position of run_backtest
    bt_params,         \* strategy_params of the current run
    market_data,       \* rows (signal, price) iterated so far, timestamp = index
    bt_balance,        \* run_backtest local: balance
    bt_position,       \* run_backtest local: position
    bt_trades,         \* run_backtest local: trades
    bt_equity_curve,   \* run_backtest local: equity_curve
    bt_metrics,        \* run_backtest local: performance_metrics
    bt_report,         \* value returned by run_backtest, or the exception raised
    bt_row,            \* rows the loop of the current call has consumed
    bt_runs,           \* calls of run_backtest made on the instance
    bt_first,          \* what the first call computed, as its caller holds it
    paper_config,      \* PaperTradeMode.config['paper_trading']
    paper_positions,   \* PaperTradeMode.positions
    paper_balance,     \* PaperTradeMode.balance
    paper_trade_history, \* PaperTradeMode.trade_history
    risk_manager,      \* PositionManager.risk_manager: the sizer handed to the constructor
    pm_positions,      \* PositionManager.positions
    pm_last_trade_time, \* PositionManager.last_trade_time
    now,               \* time.time()
    orders,            \* create_order calls received by the exchange connector
    pm_raised,         \* exception that left the last PositionManager call, or None
    sg_config,         \* SignalGenerator.config
    sg_models_manager, \* SignalGenerator.models_manager
    sg_call,           \* arguments and collaborator answer of the last generate_signal call
    sg_prepared,       \* prepared_data[symbol] of the last call, or None
    sg_signal,         \* what the last generate_signal call returned
    rm_account_balance, \* RiskManager.account_balance
    rm_sized,          \* arguments and result of the last calculate_position_size call
    tr_state,          \* TraderBase.state
    tr_threads         \* position of every loop thread start() has created

bt_vars == <<bt_pc, bt_params, market_data, bt_balance, bt_position, bt_trades,
             bt_equity_curve, bt_metrics, bt_report, bt_row, bt_runs, bt_first>>

paper_vars == <<paper_config, paper_positions, paper_balance, paper_trade_history>>

pm_vars == <<risk_manager, pm_positions, pm_last_trade_time, now, orders, pm_raised>>

sg_vars == <<sg_config, sg_models_manager, sg_call, sg_prepared, sg_signal>>

rm_vars == <<rm_account_balance, rm_sized>>

tr_vars == <<tr_state, tr_threads>>

vars == <<trading_mode, bt_vars, paper_vars, pm_vars, sg_vars, rm_vars, tr_vars>>

\* ------------------------------------------------------------ Python dict
\* a dict is the set of its items; assignment replaces the item of the key
DictHas(d, k) == \E e \in d : e.key = k
DictGet(d, k, default) == IF DictHas(d, k) THEN (CHOOSE e \in d : e.key = k).val ELSE default
DictDel(d, k) == {e \in d : e.key # k}
\* (variant) the new item is added next to the item the key already has
DictSetKeep(d, k, v) == d \cup {[key |-> k, val |-> v]}
DictSet(d, k, v) == DictDel(d, k) \cup {[key |-> k, val |-> v]}

\* ------------------------------------------------- Backtesting._process_signal
ClosedTrade(position, current_price, current_time, reason) ==
    [entry_time |-> position.entry_time,
     exit_time |-> current_time,
     entry_price |-> position.entry_price,
     exit_price |-> current_price,
     amount |-> position.amount,
     direction |-> "long",
     pnl_pct |-> RoundDiv(current_price * 1000000, position.entry_price) - 1000000,
     reason |-> reason]

\* value * fee / 100 in doubles comes out one ulp above value itself when
\* the fee is 100 and the amount bought at 96 with 5,000 or 10,000 is valued
\* at 110 (value - commission = -9.1e-13 and -1.8e-12); every other pair of
\* the prices used here gives value exactly.  One cent stands for the ulp.
CommissionExcess(position, current_price, fee_percentage) ==
    IF /\ fee_percentage = 1000
       /\ position.amount > 0
       /\ position.entry_price = 96
       /\ current_price = 110
    THEN 1 ELSE 0

\* amount_value - commission of a close at current_price
CloseProceeds(position, current_price, fee_percentage) ==
    LET amount_value == RoundDiv(position.amount * current_price, 100)
        commission == RoundDiv(amount_value * fee_percentage, 1000)
                        + CommissionExcess(position, current_price, fee_percentage)
    IN amount_value - commission

\* current_price * (1 + tp_pct / 100) in doubles comes out one ulp above the
\* exact product for tp_pct = 10 at the prices 100 and 110 (110.00000000000001,
\* 121.00000000000001); every other level of the inputs used here that is a
\* whole number of dollars is exact.  One unit of 1/1000 dollar stands for the ulp.
FloatExcess(current_price, tp_pct) ==
    IF tp_pct = 100 /\ current_price \in {100, 110} THEN 1 ELSE 0

OpenLong(current_price, current_time, balance, sl_pct, tp_pct, position_size_pct) ==
    LET position_size == RoundDiv(balance * position_size_pct, 1000)
    IN [entry_time |-> current_time,
        entry_price |-> current_price,
        amount |-> RoundDiv(position_size * 100, current_price),
        direction |-> "long",
        stop_loss |-> current_price * (1000 - sl_pct),
        take_profit |-> current_price * (1000 + tp_pct) + FloatExcess(current_price, tp_pct)]

EntryCommission(balance, fee_percentage, position_size_pct) ==
    RoundDiv(RoundDiv(balance * position_size_pct, 1000) * fee_percentage, 1000)

\* (variant) the stop-loss test is strict
ProcessSignalStrict(signal, current_price, current_time, balance, position, sl_pct, tp_pct, fee_percentage, position_size_pct) ==
    IF position = None /\ signal = "BUY"
    THEN <<balance - EntryCommission(balance, fee_percentage, position_size_pct),
           OpenLong(current_price, current_time, balance, sl_pct, tp_pct, position_size_pct),
           <<>>>>
    ELSE IF position # None
    THEN IF position.direction = "long"
         THEN IF current_price * 1000 < position.stop_loss
              THEN <<balance + CloseProceeds(position, current_price, fee_percentage),
                     None,
                     <<ClosedTrade(position, current_price, current_time, "stop_loss")>> >>
              ELSE IF current_price * 1000 >= position.take_profit
              THEN <<balance + CloseProceeds(position, current_price, fee_percentage),
                     None,
                     <<ClosedTrade(position, current_price, current_time, "take_profit")>> >>
              ELSE <<balance, position, <<>>>>
         ELSE <<balance, position, <<>>>>
    ELSE <<balance, position, <<>>>>

\* returns <<balance, position, new_trades>>
ProcessSignal(signal, current_price, current_time, balance, position, sl_pct, tp_pct, fee_percentage, position_size_pct) ==
    IF position = None /\ signal = "BUY"
    THEN <<balance - EntryCommission(balance, fee_percentage, position_size_pct),
           OpenLong(current_price, current_time, balance, sl_pct, tp_pct, position_size_pct),
           <<>>>>
    ELSE IF position # None
    THEN IF position.direction = "long"
         THEN IF current_price * 1000 <= position.stop_loss
              THEN <<balance + CloseProceeds(position, current_price, fee_percentage),
                     None,
                     <<ClosedTrade(position, current_price, current_time, "stop_loss")>> >>
              ELSE IF current_price * 1000 >= position.take_profit
              THEN <<balance + CloseProceeds(position, current_price, fee_percentage),
                     None,
                     <<ClosedTrade(position, current_price, current_time, "take_profit")>> >>
              ELSE <<balance, position, <<>>>>
         ELSE <<balance, position, <<>>>>
    ELSE <<balance, position, <<>>>>

\* market_data.iterrows(): the next row, revealed when the loop reaches it
Row(signal, price) == [signal |-> signal, price |-> price]

\* ------------------------------------------ Backtesting._calculate_performance_metrics
RECURSIVE SumPnl(_)
SumPnl(ts) == IF ts = <<>> THEN 0 ELSE ts[1].pnl_pct + SumPnl(Tail(ts))

Winning(ts) == SelectSeq(ts, LAMBDA t : t.pnl_pct > 0)
Losing(ts) == SelectSeq(ts, LAMBDA t : t.pnl_pct <= 0)

\* profit_factor: a ratio in 1/1000, or float('inf')
Ratio(v) == [inf |-> FALSE, value |-> v]
Inf == [inf |-> TRUE, value |-> 0]

\* cummax of the balance column up to row i
RECURSIVE Peak(_, _)
Peak(curve, i) == IF i = 1 THEN curve[1].balance
                  ELSE LET p == Peak(curve, i - 1)
                       IN IF curve[i].balance > p THEN curve[i].balance ELSE p

\* (balance - peak) / peak * 100 at row i, in 1/10000 percent
Drawdown(curve, i) == RoundDiv((curve[i].balance - Peak(curve, i)) * 1000, Peak(curve, i) \div 1000)

RECURSIVE MinDrawdown(_, _)
MinDrawdown(curve, i) == IF i = 1 THEN Drawdown(curve, 1)
                         ELSE LET m == MinDrawdown(curve, i - 1)
                                  d == Drawdown(curve, i)
                              IN IF d < m THEN d ELSE m

\* pct_change of the balance column at row i >= 2, in 1/1000000
Return(curve, i) ==
    RoundDiv((curve[i].balance - curve[i - 1].balance) * 1000, curve[i - 1].balance \div 1000)

\* std_return > 0: pandas' sample deviation of the pct_change column, which
\* is NaN with fewer than two returns and 0 when all returns are equal
StdPositive(curve) ==
    /\ Len(curve) >= 3
    /\ \E i, j \in 2..Len(curve) : Return(curve, i) # Return(curve, j)

\* sum of the pct_change column up to row i (mean_return has its sign)
RECURSIVE SumReturns(_, _)
SumReturns(curve, i) ==
    IF i < 2 THEN 0 ELSE Return(curve, i) + SumReturns(curve, i - 1)

Sign(x) == IF x > 0 THEN 1 ELSE IF x < 0 THEN -1 ELSE 0

\* lines 177-187: the metrics of an empty ledger
NoTradeMetrics ==
    [total_return_pct |-> 0, profit_factor |-> Ratio(0), win_rate |-> 0,
     max_drawdown_pct |-> 0, sharpe_ratio |-> 0, total_trades |-> 0,
     winning_trades |-> 0, losing_trades |-> 0]

\* lines 189-214
TradeMetrics(initial_capital, final_balance, trades, equity_curve) ==
    LET winning_trades == Winning(trades)
        losing_trades == Losing(trades)
        total_profit == SumPnl(winning_trades)
        total_loss == Abs(SumPnl(losing_trades))
    IN [total_return_pct |-> RoundDiv((final_balance - initial_capital) * 100, initial_capital \div 10000),
        profit_factor |-> IF total_loss > 0
                          THEN Ratio(RoundDiv(total_profit * 1000, total_loss))
                          ELSE Inf,
        win_rate |-> IF trades # <<>> THEN RoundDiv(Len(winning_trades) * 10000, Len(trades)) ELSE 0,
        max_drawdown_pct |-> Abs(MinDrawdown(equity_curve, Len(equity_curve))),
        sharpe_ratio |-> IF StdPositive(equity_curve)
                         THEN Sign(SumReturns(equity_curve, Len(equity_curve)))
                         ELSE 0,
        total_trades |-> Len(trades),
        winning_trades |-> Len(winning_trades),
        losing_trades |-> Len(losing_trades)]

\* (variant) the early return covers only a run without rows
CalculatePerformanceMetricsLate(initial_capital, final_balance, trades, equity_curve) ==
    IF equity_curve = <<>>
    THEN NoTradeMetrics
    ELSE TradeMetrics(initial_capital, final_balance, trades, equity_curve)

CalculatePerformanceMetrics(initial_capital, final_balance, trades, equity_curve) ==
    IF trades = <<>>
    THEN NoTradeMetrics
    ELSE TradeMetrics(initial_capital, final_balance, trades, equity_curve)

\* ------------------------------------------------------ Backtesting.run_backtest
NoReport == "NoReport"

\* (variant) the ledger is kept on the instance and never emptied
RunLocalsKeepTrades(params) ==
    /\ bt_params' = params
    /\ bt_balance' = InitialCapital
    /\ bt_position' = None
    /\ bt_trades' = bt_trades
    /\ bt_equity_curve' = <<>>
    /\ bt_row' = 0
    /\ bt_metrics' = None
    /\ bt_report' = NoReport

\* lines 41-50: the locals a call starts from
RunLocals(params) ==
    /\ bt_params' = params
    /\ bt_balance' = InitialCapital
    /\ bt_position' = None
    /\ bt_trades' = <<>>
    /\ bt_equity_curve' = <<>>
    /\ bt_row' = 0
    /\ bt_metrics' = None
    /\ bt_report' = NoReport

\* lines 38-53: first call on a Backtesting instance
StartRun(params) ==
    /\ bt_pc = "call"
    /\ bt_pc' = "loop"
    /\ bt_runs' = 1
    /\ RunLocals(params)
    /\ UNCHANGED <<trading_mode, sg_vars, rm_vars, tr_vars, market_data, bt_first, paper_vars, pm_vars>>

\* lines 38-53: a further call on the same instance, over the same market_data
Rerun(params) ==
    /\ bt_pc \in {"raised", "returned"}
    /\ bt_runs < MaxRuns
    /\ bt_pc' = "loop"
    /\ bt_runs' = bt_runs + 1
    /\ RunLocals(params)
    /\ UNCHANGED <<trading_mode, sg_vars, rm_vars, tr_vars, market_data, bt_first, paper_vars, pm_vars>>

\* lines 55-67: one iteration of the loop over the rows; the first call
\* reveals the rows of market_data, later calls read them again
ProcessRow(signal, price) ==
    /\ bt_pc = "loop"
    /\ bt_row < MaxBars
    /\ IF bt_row < Len(market_data)
       THEN market_data[bt_row + 1] = Row(signal, price)
       ELSE bt_runs = 1
    /\ LET current_time == bt_row + 1
           r == ProcessSignal(signal, price, current_time, bt_balance, bt_position,
                              Get(bt_params, "stop_loss_pct"), Get(bt_params, "take_profit_pct"),
                              Get(bt_params, "fee_pct"), Get(bt_params, "position_size_pct"))
       IN /\ market_data' = IF bt_row < Len(market_data) THEN market_data
                            ELSE Append(market_data, Row(signal, price))
          /\ bt_row' = current_time
          /\ bt_equity_curve' = Append(bt_equity_curve, [timestamp |-> current_time, balance |-> bt_balance])
          /\ bt_balance' = r[1]
          /\ bt_position' = r[2]
          /\ bt_trades' = bt_trades \o r[3]
    /\ UNCHANGED <<bt_pc, bt_params, bt_metrics, bt_report, bt_runs, bt_first>>

ProcessBar(signal, price) ==
    /\ ProcessRow(signal, price)
    /\ UNCHANGED <<trading_mode, sg_vars, rm_vars, tr_vars, paper_vars, pm_vars>>

\* Backtesting has no attribute _generate_report: line 73 raises
GenerateReport(symbol, initial_capital, performance_metrics, trades, equity_curve) ==
    "AttributeError"

\* what a call has computed when it ends
Outcome(params, balance, trades, equity_curve, metrics, report) ==
    [params |-> params, final_balance |-> balance, trades |-> trades,
     equity_curve |-> equity_curve, metrics |-> metrics, report |-> report]

\* lines 69-75: the rows are exhausted
FinishRun ==
    /\ bt_pc = "loop"
    /\ bt_row = Len(market_data)
    /\ LET performance_metrics ==
               CalculatePerformanceMetrics(InitialCapital, bt_balance, bt_trades, bt_equity_curve)
           report == GenerateReport("BTC/USDT", InitialCapital, performance_metrics,
                                    bt_trades, bt_equity_curve)
       IN /\ bt_metrics' = performance_metrics
          /\ bt_report' = report
          /\ bt_pc' = IF report = "AttributeError" THEN "raised" ELSE "returned"
          /\ bt_first' = IF bt_first = None
                         THEN Outcome(bt_params, bt_balance, bt_trades, bt_equity_curve,
                                      performance_metrics, report)
                         ELSE bt_first
    /\ UNCHANGED <<trading_mode, sg_vars, rm_vars, tr_vars, bt_params, market_data, bt_row, bt_balance, bt_position,
                   bt_trades, bt_equity_curve, bt_runs, paper_vars, pm_vars>>

InitBacktesting ==
    /\ bt_pc = "call"
    /\ bt_params = None
    /\ market_data = <<>>
    /\ bt_row = 0
    /\ bt_balance = 0
    /\ bt_position = None
    /\ bt_trades = <<>>
    /\ bt_equity_curve = <<>>
    /\ bt_metrics = None
    /\ bt_report = NoReport
    /\ bt_runs = 0
    /\ bt_first = None

\* ------------------------------------------------- PaperTradeMode (trade_mode.py)
\* config.get('paper_trading', {}).get(key, default); percentages in 1/10 %
PaperDefaults == [initial_balance |-> 1000000, position_size_pct |-> 200, fee_percentage |-> 1]
PaperGet(config, key) == IF key \in DOMAIN config THEN config[key] ELSE PaperDefaults[key]

\* a config that leaves sizing and fee to the defaults, and one that stakes
\* the whole balance
PlainConfig == [initial_balance |-> 1000000]
AllIn == [position_size_pct |-> 1000]
PaperConfigs == {PlainConfig, AllIn}

PaperSymbols == {"BTC/USDT", "ETH/USDT"}

\* trader.get_current_price(symbol) raised
PriceError == -1

InitPaper(config) ==
    /\ paper_config = config
    /\ paper_positions = {}
    /\ paper_balance = PaperGet(paper_config, "initial_balance")
    /\ paper_trade_history = <<>>

\* (variant) the BUY branch without the check of the funds
PaperBuyUnchecked(symbol, current_price, position_size_pct, fee_percentage) ==
    LET position_size == RoundDiv(paper_balance * position_size_pct, 1000)
        position_amount == RoundDiv(position_size * 100, current_price)
        commission == RoundDiv(position_size * fee_percentage, 1000)
    IN /\ paper_positions' = DictSet(paper_positions, symbol,
              [entry_price |-> current_price, amount |-> position_amount,
               size |-> position_size, direction |-> "long"])
       /\ paper_balance' = paper_balance - (position_size + commission)
       /\ paper_trade_history' = Append(paper_trade_history,
              [symbol |-> symbol, action |-> "BUY", price |-> current_price,
               amount |-> position_amount,
               balance_after |-> paper_balance - (position_size + commission)])

\* lines 49-82: the BUY branch; the wall-clock stamps of the records are left out
PaperBuy(symbol, current_price, position_size_pct, fee_percentage) ==
    LET position_size == RoundDiv(paper_balance * position_size_pct, 1000)
        position_amount == RoundDiv(position_size * 100, current_price)
        commission == RoundDiv(position_size * fee_percentage, 1000)
    IN IF position_size + commission > paper_balance
       THEN UNCHANGED <<paper_positions, paper_balance, paper_trade_history>>
       ELSE /\ paper_positions' = DictSet(paper_positions, symbol,
                   [entry_price |-> current_price, amount |-> position_amount,
                    size |-> position_size, direction |-> "long"])
            /\ paper_balance' = paper_balance - (position_size + commission)
            /\ paper_trade_history' = Append(paper_trade_history,
                   [symbol |-> symbol, action |-> "BUY", price |-> current_price,
                    amount |-> position_amount,
                    balance_after |-> paper_balance - (position_size + commission)])

\* (variant) the SELL branch without its commission
PaperSellFree(symbol, position, current_price, fee_percentage) ==
    LET current_value == RoundDiv(position.amount * current_price, 100)
        pnl == RoundDiv(current_price * 1000000, position.entry_price) - 1000000
    IN /\ paper_balance' = paper_balance + current_value
       /\ paper_trade_history' = Append(paper_trade_history,
              [symbol |-> symbol, action |-> "SELL", price |-> current_price,
               amount |-> position.amount, pnl_pct |-> pnl,
               balance_after |-> paper_balance + current_value])
       /\ paper_positions' = DictDel(paper_positions, symbol)

\* lines 84-107: the SELL branch
PaperSell(symbol, position, current_price, fee_percentage) ==
    LET current_value == RoundDiv(position.amount * current_price, 100)
        pnl == RoundDiv(current_price * 1000000, position.entry_price) - 1000000
        commission == RoundDiv(current_value * fee_percentage, 1000)
                        + CommissionExcess(position, current_price, fee_percentage)
    IN /\ paper_balance' = paper_balance + (current_value - commission)
       /\ paper_trade_history' = Append(paper_trade_history,
              [symbol |-> symbol, action |-> "SELL", price |-> current_price,
               amount |-> position.amount, pnl_pct |-> pnl,
               balance_after |-> paper_balance + (current_value - commission)])
       /\ paper_positions' = DictDel(paper_positions, symbol)

\* PaperTradeMode.execute_trade(trader, signal); price is what
\* trader.get_current_price returns, or PriceError when it raises
PaperExecute(symbol, action, price) ==
    LET position == DictGet(paper_positions, symbol, None)
    IN IF action = "HOLD" \/ price = PriceError
       THEN UNCHANGED <<paper_positions, paper_balance, paper_trade_history>>
       ELSE IF action = "BUY" /\ position = None
       THEN PaperBuy(symbol, price, PaperGet(paper_config, "position_size_pct"),
                     PaperGet(paper_config, "fee_percentage"))
       ELSE IF action = "SELL" /\ position # None /\ position.direction = "long"
       THEN PaperSell(symbol, position, price, PaperGet(paper_config, "fee_percentage"))
       ELSE UNCHANGED <<paper_positions, paper_balance, paper_trade_history>>

execute_trade(symbol, action, price) ==
    /\ Len(paper_trade_history) < MaxHistory
    /\ PaperExecute(symbol, action, price)
    /\ UNCHANGED <<trading_mode, sg_vars, rm_vars, tr_vars, paper_config, bt_vars, pm_vars>>

\* PaperTradeMode.calculate_equity
RECURSIVE SumValue(_)
SumValue(items) ==
    IF items = {} THEN 0
    ELSE LET e == CHOOSE x \in items : TRUE
         IN RoundDiv(e.val.amount * e.val.entry_price, 100) + SumValue(items \ {e})

calculate_equity == paper_balance + SumValue(paper_positions)

\* ------------------------------------------------- RiskManager (risk_manager.py)
\* account_balance in cents, prices in whole dollars, the size in 1/10000 unit
max_risk_per_trade == 2

\* RiskManager() and RiskManager(account_balance)
DefaultAccountBalance == 1000000
AccountBalances == {DefaultAccountBalance, 500000, 250000}

SizerPrices == {90, 95, 98, 100, 105, 110}

\* (variant) the division is made whatever the distance
RiskManagerPositionSizeUnguarded(account_balance, stop_loss, entry_price) ==
    LET risk_amount == RoundDiv(account_balance * max_risk_per_trade, 100)
        risk_per_unit == Abs(entry_price - stop_loss)
    IN IF risk_per_unit # 0
       THEN [value |-> RoundDiv(risk_amount * 100, risk_per_unit)]
       ELSE [exception |-> "ZeroDivisionError"]

\* RiskManager.calculate_position_size(stop_loss, entry_price)
RiskManagerPositionSize(account_balance, stop_loss, entry_price) ==
    LET risk_amount == RoundDiv(account_balance * max_risk_per_trade, 100)
        risk_per_unit == Abs(entry_price - stop_loss)
    IN IF risk_per_unit > 0
       THEN [value |-> RoundDiv(risk_amount * 100, risk_per_unit)]
       ELSE [value |-> 0]

calculate_position_size(stop_loss, entry_price) ==
    /\ rm_sized' = [stop_loss |-> stop_loss, entry_price |-> entry_price,
                    position_size |-> RiskManagerPositionSize(rm_account_balance,
                                                              stop_loss, entry_price)]
    /\ UNCHANGED <<trading_mode, rm_account_balance, sg_vars, tr_vars, bt_vars, paper_vars, pm_vars>>

InitRisk(account_balance) ==
    /\ rm_account_balance = account_balance
    /\ rm_sized = None

\* --------------------------------------------- PositionManager (position_manager.py)
min_trade_interval == 60

PMSymbol == "BTCUSDT"

\* the two sizers a PositionManager may be built with: the repository's
\* RiskManager, whose calculate_position_size(stop_loss, entry_price) rejects
\* the keywords execute passes, and a sizer that accepts them
RiskManagers == {"RiskManager", "KeywordSizer"}

Quantities == {1, 2}
PMPrices == {94, 100, 110}
\* (stop_loss, take_profit) levels a signal may carry
\* what create_order returns: nothing, or an order filled at a price
NoOrder == 0
Fills == {NoOrder, 100}
\* get_ohlcv returned no candles
NoData == "NoData"
\* the candle monitor_positions asks for is missing
NoPrice == -1

InitLive(sizer) ==
    /\ risk_manager = sizer
    /\ pm_positions = {}
    /\ pm_last_trade_time = {}
    /\ now = Epoch
    /\ orders = <<>>
    /\ pm_raised = None

Raised(exception) == [exception |-> exception]

\* (variant) the interval is left out of the comparison
CanTradeAnyTime(symbol) == (now - DictGet(pm_last_trade_time, symbol, 0)) >= 0
\* PositionManager._can_trade
CanTrade(symbol) == (now - DictGet(pm_last_trade_time, symbol, 0)) >= min_trade_interval

\* PositionManager._get_volatility: candles make it use pd, which the module
\* never imports; without candles it returns the default 0.01
GetVolatility(ohlcv) == IF ohlcv # NoData THEN Raised("NameError") ELSE [value |-> 1]

\* risk_manager.calculate_position_size(risk_per_trade=, volatility=, method=)
CalculatePositionSize(quantity) ==
    IF risk_manager = "RiskManager" THEN Raised("TypeError") ELSE [value |-> quantity]

Order(symbol, side, quantity) ==
    [symbol |-> symbol, side |-> side, type |-> "MARKET", quantity |-> quantity]

\* PositionManager._open_position
OpenPosition(symbol, side, quantity, stop_loss, take_profit, fill) ==
    /\ orders' = Append(orders, Order(symbol, side, quantity))
    /\ IF fill # NoOrder
       THEN /\ pm_positions' = DictSet(pm_positions, symbol,
                   [side |-> side, quantity |-> quantity, entry_price |-> fill,
                    stop_loss |-> stop_loss, take_profit |-> take_profit])
            /\ pm_last_trade_time' = DictSet(pm_last_trade_time, symbol, now)
       ELSE UNCHANGED <<pm_positions, pm_last_trade_time>>

\* PositionManager.execute(signal); ohlcv, quantity and fill are what the
\* connector and the sizer answer during the call
execute(signal, ohlcv, quantity, fill) ==
    /\ Len(orders) < MaxOrders
    /\ LET symbol == PMSymbol
           volatility == GetVolatility(ohlcv)
           position_size == CalculatePositionSize(quantity)
       IN IF signal.signal = 0 \/ ~CanTrade(symbol)
          THEN /\ pm_raised' = None
               /\ UNCHANGED <<pm_positions, pm_last_trade_time, orders>>
          ELSE IF volatility = Raised("NameError")
          THEN /\ pm_raised' = volatility
               /\ UNCHANGED <<pm_positions, pm_last_trade_time, orders>>
          ELSE IF position_size = Raised("TypeError")
          THEN /\ pm_raised' = position_size
               /\ UNCHANGED <<pm_positions, pm_last_trade_time, orders>>
          ELSE /\ pm_raised' = None
               /\ OpenPosition(symbol, IF signal.signal = 1 THEN "BUY" ELSE "SELL",
                               position_size.value, signal.stop_loss, signal.take_profit, fill)
    /\ UNCHANGED <<trading_mode, sg_vars, rm_vars, tr_vars, risk_manager, now, bt_vars, paper_vars>>

Signals == [signal : {-1, 0, 1}, stop_loss : {95, 110}, take_profit : {95, 110}]

\* (variant) the position is read with get and stays in the table
ClosePositionKeep(positions, log, symbol) ==
    LET position == DictGet(positions, symbol, None)
    IN IF position # None
       THEN <<positions,
              Append(log, Order(symbol, IF position.side = "BUY" THEN "SELL" ELSE "BUY",
                                position.quantity))>>
       ELSE <<positions, log>>

\* PositionManager._close_position on a table and an order log: <<table, log>>
ClosePosition(positions, log, symbol) ==
    LET position == DictGet(positions, symbol, None)
    IN IF position # None
       THEN <<DictDel(positions, symbol),
              Append(log, Order(symbol, IF position.side = "BUY" THEN "SELL" ELSE "BUY",
                                position.quantity))>>
       ELSE <<positions, log>>

\* (variant) the stop-loss comparisons are strict
MonitorItemStrict(positions, log, symbol, position, current_price) ==
    LET sl == IF \/ position.side = "BUY" /\ current_price < position.stop_loss
                 \/ position.side = "SELL" /\ current_price > position.stop_loss
              THEN ClosePosition(positions, log, symbol)
              ELSE <<positions, log>>
    IN IF \/ position.side = "BUY" /\ current_price >= position.take_profit
          \/ position.side = "SELL" /\ current_price <= position.take_profit
       THEN ClosePosition(sl[1], sl[2], symbol)
       ELSE sl

\* lines 99-115: the body of the loop for one item of the table
MonitorItem(positions, log, symbol, position, current_price) ==
    LET sl == IF \/ position.side = "BUY" /\ current_price <= position.stop_loss
                 \/ position.side = "SELL" /\ current_price >= position.stop_loss
              THEN ClosePosition(positions, log, symbol)
              ELSE <<positions, log>>
    IN IF \/ position.side = "BUY" /\ current_price >= position.take_profit
          \/ position.side = "SELL" /\ current_price <= position.take_profit
       THEN ClosePosition(sl[1], sl[2], symbol)
       ELSE sl

\* the loop over list(self.positions.items()); stops at the first price
\* read that fails: <<table, log, exception>>
RECURSIVE MonitorLoop(_, _, _, _)
MonitorLoop(items, positions, log, price) ==
    IF items = {} THEN <<positions, log, None>>
    ELSE LET e == CHOOSE x \in items : TRUE
         IN IF price = NoPrice THEN <<positions, log, Raised("TypeError")>>
            ELSE LET r == MonitorItem(positions, log, e.key, e.val, price)
                 IN MonitorLoop(items \ {e}, r[1], r[2], price)

\* PositionManager.monitor_positions(); price is the close of the candle the
\* connector returns, or NoPrice
monitor_positions(price) ==
    /\ Len(orders) < MaxOrders
    /\ LET r == MonitorLoop(pm_positions, pm_positions, orders, price)
       IN /\ pm_positions' = r[1]
          /\ orders' = r[2]
          /\ pm_raised' = r[3]
    /\ UNCHANGED <<trading_mode, sg_vars, rm_vars, tr_vars, risk_manager, pm_last_trade_time, now, bt_vars, paper_vars>>

\* time.time() moves on between two calls
Tick ==
    /\ now < MaxNow
    /\ now' = now + TickSeconds
    /\ UNCHANGED <<trading_mode, sg_vars, rm_vars, tr_vars, risk_manager, pm_positions, pm_last_trade_time, orders,
                   pm_raised, bt_vars, paper_vars>>

\* --------------------------------------------- SignalGenerator (signal_generator.py)
\* confidences and thresholds in 1/10; the timestamp of a signal and the
\* date index of a close series are wall-clock readings and are left out
SGSymbols == {"BTCUSDT", "ETHUSDT"}

\* config.get('strategy', {}).get(key, 0.6)
DefaultThreshold == 6
NoStrategy == [trading_mode |-> "paper"]
HighBuy == [strategy |-> [buy_threshold |-> 7]]
LowBuy == [strategy |-> [buy_threshold |-> 5, sell_threshold |-> 7]]
SGConfigs == {NoStrategy, HighBuy, LowBuy}

Threshold(config, key) ==
    IF "strategy" \in DOMAIN config /\ key \in DOMAIN config.strategy
    THEN config.strategy[key]
    ELSE DefaultThreshold

\* models_manager=None, or a manager whose predict is called
NoModels == "None"
ModelsManagers == {NoModels, "ModelsManager"}

\* snapshots the market_data argument may hold for a symbol
EmptyDict == [k \in {} |-> 0]
History == [price |-> 100, volume |-> 7, close |-> <<97, 98, 99, 100, 101>>]
Flat == [price |-> 100, volume |-> 7, close |-> <<100, 100, 100>>]
NoClose == [price |-> 100, volume |-> 7]
VolumeOnly == [volume |-> 7]
PriceOnly == [price |-> 100]
\* a bare number where a dict is expected
Ticker == [not_dict |-> 100]
Snapshots == {EmptyDict, History, Flat, NoClose, VolumeOnly, PriceOnly, Ticker}

IsDict(snapshot) == "not_dict" \notin DOMAIN snapshot

\* the market_data argument: nothing at all, or one symbol with its snapshot
MarketDatas == {EmptyDict} \cup {s :> snapshot : s \in SGSymbols, snapshot \in Snapshots}

\* market_data.get(symbol, {})
MarketGet(snapshots, symbol) ==
    IF symbol \in DOMAIN snapshots THEN snapshots[symbol] ELSE EmptyDict

\* what models_manager.predict answers: a prediction dict (fields may be
\* missing), None, or an exception
NoPrediction == None
PredictRaises == [exception |-> "RuntimeError"]
Predictions == [direction : {-1, 0, 1}, confidence : {5, 6, 7}]
                   \cup {[direction |-> 1], [confidence |-> 9]}
Answers == Predictions \cup {NoPrediction, PredictRaises}

IsPrediction(answer) == answer # NoPrediction /\ answer # PredictRaises

\* 50000 if 'BTC' in symbol else 1500
BasePrice(symbol) == IF symbol = "BTCUSDT" THEN 50000 ELSE 1500

\* lines 104-110 and 134-140: the five prices around current_price
SyntheticPrices(current_price) ==
    <<(current_price * 97) \div 100, (current_price * 98) \div 100,
      (current_price * 99) \div 100, current_price, (current_price * 101) \div 100>>

\* SignalGenerator._create_default_market_data
CreateDefaultMarketData(symbol) ==
    [price |-> BasePrice(symbol), volume |-> 100, close |-> SyntheticPrices(BasePrice(symbol))]

\* SignalGenerator._prepare_market_data
PrepareMarketData(symbol, snapshots) ==
    IF symbol \notin DOMAIN snapshots
    THEN CreateDefaultMarketData(symbol)
    ELSE LET copy == IF IsDict(snapshots[symbol]) THEN snapshots[symbol]
                     ELSE [price |-> 50000, volume |-> 100]
             priced == IF "price" \in DOMAIN copy THEN copy
                       ELSE copy @@ [price |-> BasePrice(symbol)]
             data == IF "volume" \in DOMAIN priced THEN priced
                     ELSE priced @@ [volume |-> 100]
         IN IF "close" \in DOMAIN data THEN data
            ELSE data @@ [close |-> SyntheticPrices(data.price)]

\* SignalGenerator._extract_features with technical_features=None
ExtractFeatures(symbol, prepared_data) ==
    [price |-> prepared_data[symbol].price, volume |-> prepared_data[symbol].volume]

\* prediction.get(key, default)
PredictionGet(prediction, key, default) ==
    IF key \in DOMAIN prediction THEN prediction[key] ELSE default

\* (variant) the confidence has to exceed the threshold
PredictionToSignalStrict(prediction, config) ==
    LET confidence == PredictionGet(prediction, "confidence", 5)
        direction == PredictionGet(prediction, "direction", 0)
    IN IF direction > 0 /\ confidence > Threshold(config, "buy_threshold")
       THEN <<"BUY", confidence>>
       ELSE IF direction < 0 /\ confidence > Threshold(config, "sell_threshold")
       THEN <<"SELL", confidence>>
       ELSE <<"HOLD", confidence>>

\* SignalGenerator._prediction_to_signal: <<action, confidence>>
PredictionToSignal(prediction, config) ==
    LET confidence == PredictionGet(prediction, "confidence", 5)
        direction == PredictionGet(prediction, "direction", 0)
    IN IF direction > 0 /\ confidence >= Threshold(config, "buy_threshold")
       THEN <<"BUY", confidence>>
       ELSE IF direction < 0 /\ confidence >= Threshold(config, "sell_threshold")
       THEN <<"SELL", confidence>>
       ELSE <<"HOLD", confidence>>

\* SignalGenerator._create_signal_dict
CreateSignalDict(symbol, action, confidence) ==
    [symbol |-> symbol, action |-> action, confidence |-> confidence]

\* the body of generate_signal: [prepared, signal]; answer is what
\* models_manager.predict does when it is called
GenerateSignal(symbol, snapshots, answer) ==
    IF DOMAIN snapshots = {} \/ sg_models_manager = NoModels
    THEN [prepared |-> None, signal |-> CreateSignalDict(symbol, "HOLD", 5)]
    ELSE IF DOMAIN MarketGet(snapshots, symbol) = {}
    THEN [prepared |-> None, signal |-> CreateSignalDict(symbol, "HOLD", 5)]
    ELSE LET prepared_data == symbol :> PrepareMarketData(symbol, snapshots)
             features == ExtractFeatures(symbol, prepared_data)
         IN IF DOMAIN features = {}
            THEN [prepared |-> prepared_data[symbol],
                  signal |-> CreateSignalDict(symbol, "HOLD", 5)]
            ELSE IF ~IsPrediction(answer)
            \* predict raised, or prediction.get raised on None: lines 61-65
            THEN [prepared |-> prepared_data[symbol],
                  signal |-> CreateSignalDict(symbol, "HOLD", 5)]
            ELSE LET r == PredictionToSignal(answer, sg_config)
                 IN [prepared |-> prepared_data[symbol],
                     signal |-> CreateSignalDict(symbol, r[1], r[2])]

\* SignalGenerator.generate_signal(symbol, market_data)
generate_signal(symbol, snapshots, answer) ==
    /\ LET r == GenerateSignal(symbol, snapshots, answer)
       IN /\ sg_prepared' = r.prepared
          /\ sg_signal' = r.signal
    /\ sg_call' = [symbol |-> symbol, market_data |-> snapshots, answer |-> answer]
    /\ UNCHANGED <<trading_mode, sg_config, sg_models_manager, rm_vars, tr_vars, bt_vars, paper_vars, pm_vars>>

InitSignal(config, models_manager) ==
    /\ sg_config = config
    /\ sg_models_manager = models_manager
    /\ sg_call = None
    /\ sg_prepared = None
    /\ sg_signal = None

\* ------------------------------------------------------ TraderBase (trader_base.py)
\* a loop thread is about to: test the while condition, run one of the four
\* stages of _execute_cycle, call notification_service.send in the handler,
\* assign state = "error", sleep; or it has ended
Stages == <<"fetch", "analyze", "execute", "monitor">>
StageNames == {Stages[i] : i \in 1..Len(Stages)}

\* the position after a stage that returned
AfterStage(pc) ==
    IF pc = "fetch" THEN "analyze"
    ELSE IF pc = "analyze" THEN "execute"
    ELSE IF pc = "execute" THEN "monitor"
    ELSE "sleep"

Threads == 1..Len(tr_threads)

InitTrader ==
    /\ tr_state = "inactive"
    /\ tr_threads = <<>>

TraderStep == UNCHANGED <<trading_mode, bt_vars, paper_vars, pm_vars, sg_vars, rm_vars>>

\* lines 50-55
StartThread ==
    IF tr_state = "active"
    THEN UNCHANGED <<tr_state, tr_threads>>
    ELSE /\ tr_state' = "active"
         /\ tr_threads' = Append(tr_threads, "while")

\* TraderBase.start(), the body under self.lock
start ==
    /\ Len(tr_threads) < MaxThreads
    /\ StartThread
    /\ TraderStep

\* TraderBase.stop()
stop ==
    /\ tr_state' = IF tr_state = "active" THEN "inactive" ELSE tr_state
    /\ UNCHANGED tr_threads
    /\ TraderStep

\* TraderBase.pause()
pause ==
    /\ tr_state' = IF tr_state = "active" THEN "paused" ELSE tr_state
    /\ UNCHANGED tr_threads
    /\ TraderStep

\* TraderBase.resume()
resume ==
    /\ tr_state' = IF tr_state = "paused" THEN "active" ELSE tr_state
    /\ UNCHANGED tr_threads
    /\ TraderStep

\* line 87: while self.state == "active"
LoopTest(t) ==
    /\ tr_threads[t] = "while"
    /\ tr_threads' = [tr_threads EXCEPT ![t] = IF tr_state = "active" THEN "fetch" ELSE "done"]
    /\ UNCHANGED tr_state
    /\ TraderStep

\* a cycle that tests the state before every stage and gives up when the
\* trader is no longer active
RunStageInterruptible(t, raises) ==
    /\ tr_threads[t] \in StageNames
    /\ tr_threads' = [tr_threads EXCEPT ![t] =
                         IF tr_state # "active" THEN "done"
                         ELSE IF raises THEN "except" ELSE AfterStage(tr_threads[t])]
    /\ UNCHANGED tr_state
    /\ TraderStep

\* lines 88-91 and 98-110: one stage of the cycle returns or raises
RunStage(t, raises) ==
    /\ tr_threads[t] \in StageNames
    /\ tr_threads' = [tr_threads EXCEPT ![t] = IF raises THEN "except" ELSE AfterStage(tr_threads[t])]
    /\ UNCHANGED tr_state
    /\ TraderStep

\* lines 92-93: the handler logs and calls notification_service.send, which
\* returns or raises; an exception raised here ends the thread
Notify(t, raises) ==
    /\ tr_threads[t] = "except"
    /\ tr_threads' = [tr_threads EXCEPT ![t] = IF raises THEN "done" ELSE "set_error"]
    /\ UNCHANGED tr_state
    /\ TraderStep

\* lines 94-95: self.state = "error"; break
SetError(t) ==
    /\ tr_threads[t] = "set_error"
    /\ tr_threads' = [tr_threads EXCEPT ![t] = "done"]
    /\ tr_state' = "error"
    /\ TraderStep

\* line 96: time.sleep(self.timeframe) returns
Wake(t) ==
    /\ tr_threads[t] = "sleep"
    /\ tr_threads' = [tr_threads EXCEPT ![t] = "while"]
    /\ UNCHANGED tr_state
    /\ TraderStep

InitReplay ==
    /\ trading_mode = "backtesting"
    /\ InitBacktesting
    /\ InitPaper(PlainConfig)
    /\ InitLive("RiskManager")
    /\ InitSignal(NoStrategy, NoModels)
    /\ InitRisk(DefaultAccountBalance)
    /\ InitTrader

NextReplay ==
    \/ \E params \in StrategyParams : StartRun(params)
    \/ \E signal \in Actions, price \in Prices : ProcessBar(signal, price)
    \/ FinishRun

\* one run of the replay engine
SpecReplay == InitReplay /\ [][NextReplay]_vars

NextRerun ==
    \/ \E params \in StrategyParams : StartRun(params)
    \/ \E params \in StrategyParams : Rerun(params)
    \/ \E signal \in RerunActions, price \in RerunPrices : ProcessBar(signal, price)
    \/ FinishRun

\* several runs on one Backtesting instance over the same market_data
SpecRerun == InitReplay /\ [][NextRerun]_vars

\* strategy_params that put the stop-loss level at the entry price
ZeroStop == [stop_loss_pct |-> 0]

NextZeroStop ==
    \/ StartRun(ZeroStop)
    \/ \E signal \in RerunActions, price \in RerunPrices : ProcessBar(signal, price)
    \/ FinishRun

\* one run whose positions are stopped out as soon as the price is not above entry
SpecZeroStop == InitReplay /\ [][NextZeroStop]_vars

\* ------------------------------ replay and paper trading fed the same steps
LockSymbol == "BTC/USDT"

\* one row goes to _process_signal and, as a signal at the row's price, to
\* PaperTradeMode.execute_trade
LockStep(signal, price) ==
    /\ ProcessRow(signal, price)
    /\ PaperExecute(LockSymbol, signal, price)
    /\ UNCHANGED <<trading_mode, sg_vars, rm_vars, tr_vars, paper_config, pm_vars>>

NextLockstep ==
    \/ \E params \in StrategyParams : StartRun(params)
    \/ \E signal \in Actions, price \in Prices : LockStep(signal, price)

SpecLockstep == InitReplay /\ [][NextLockstep]_vars

\* --------------------- replay and paper trading at the ends of the parameter ranges
\* the whole balance staked at a fee of 100 %
FullFee == [fee_pct |-> 1000, position_size_pct |-> 1000]
ExtremeParams == {Moderada, FullFee}

\* half the balance staked at a fee of 100 %; an account without funds
HalfAtFullFee == [position_size_pct |-> 500, fee_percentage |-> 1000]
NoFunds == [initial_balance |-> 0]
ExtremePaperConfigs == {AllIn, HalfAtFullFee, NoFunds}

ExtremePrices == {96, 100, 110}

InitExtremes ==
    /\ trading_mode = "backtesting"
    /\ InitBacktesting
    /\ \E config \in ExtremePaperConfigs : InitPaper(config)
    /\ InitLive("RiskManager")
    /\ InitSignal(NoStrategy, NoModels)
    /\ InitRisk(DefaultAccountBalance)
    /\ InitTrader

NextExtremes ==
    \/ \E params \in ExtremeParams : StartRun(params)
    \/ \E signal \in Actions, price \in ExtremePrices : LockStep(signal, price)

SpecExtremes == InitExtremes /\ [][NextExtremes]_vars

\* ------------------------------------------------------- paper trading alone
InitPaperMode ==
    /\ trading_mode = "paper"
    /\ InitBacktesting
    /\ \E config \in PaperConfigs : InitPaper(config)
    /\ InitLive("RiskManager")
    /\ InitSignal(NoStrategy, NoModels)
    /\ InitRisk(DefaultAccountBalance)
    /\ InitTrader

NextPaper ==
    \E symbol \in PaperSymbols, action \in Actions, price \in Prices \cup {PriceError} :
        execute_trade(symbol, action, price)

SpecPaper == InitPaperMode /\ [][NextPaper]_vars

\* -------------------------------------------------------- live trading alone
InitLiveMode ==
    /\ trading_mode = "live"
    /\ InitBacktesting
    /\ InitPaper(PlainConfig)
    /\ \E sizer \in RiskManagers : InitLive(sizer)
    /\ InitSignal(NoStrategy, NoModels)
    /\ InitRisk(DefaultAccountBalance)
    /\ InitTrader

NextLive ==
    \/ \E signal \in Signals, ohlcv \in {NoData, "candles"}, quantity \in Quantities,
          fill \in Fills : execute(signal, ohlcv, quantity, fill)
    \/ \E price \in PMPrices \cup {NoPrice} : monitor_positions(price)
    \/ Tick

SpecLive == InitLiveMode /\ [][NextLive]_vars

\* ------------------------------------------------- the signal scorer alone
InitSignalMode ==
    /\ trading_mode = "paper"
    /\ InitBacktesting
    /\ InitPaper(PlainConfig)
    /\ InitLive("RiskManager")
    /\ \E config \in SGConfigs, models_manager \in ModelsManagers :
          InitSignal(config, models_manager)
    /\ InitRisk(DefaultAccountBalance)
    /\ InitTrader

NextSignal ==
    \E symbol \in SGSymbols, snapshots \in MarketDatas, answer \in Answers :
        generate_signal(symbol, snapshots, answer)

SpecSignal == InitSignalMode /\ [][NextSignal]_vars

\* ---------------------------------------------------- the risk sizer alone
InitSizer ==
    /\ trading_mode = "live"
    /\ InitBacktesting
    /\ InitPaper(PlainConfig)
    /\ InitLive("RiskManager")
    /\ InitSignal(NoStrategy, NoModels)
    /\ \E account_balance \in AccountBalances : InitRisk(account_balance)
    /\ InitTrader

NextSizer ==
    \E stop_loss \in SizerPrices, entry_price \in SizerPrices :
        calculate_position_size(stop_loss, entry_price)

SpecSizer == InitSizer /\ [][NextSizer]_vars

\* ----------------------------- the traders of load_traders on one PositionManager
\* load_traders hands services["position_manager"] to both traders
Traders == {"BTCTrader", "ETHTrader"}

\* the exchange symbol of the trader's symbol (BTC/USDT, ETH/USDT)
ExchangeSymbol(trader) == IF trader = "BTCTrader" THEN "BTCUSDT" ELSE "ETHUSDT"
ExchangeSymbols == {ExchangeSymbol(trader) : trader \in Traders}

\* _execute_orders(signal): BTCTrader overrides it and, unless the signal is
\* a hold, asks the position manager for get_account_balance, which
\* PositionManager does not have; ETHTrader inherits TraderBase's, which
\* calls position_manager.execute(signal)
execute_orders(trader, signal, ohlcv, quantity, fill) ==
    IF trader = "BTCTrader"
    THEN /\ Len(orders) < MaxOrders
         /\ pm_raised' = IF signal.signal = 0 THEN None ELSE Raised("AttributeError")
         /\ UNCHANGED <<trading_mode, sg_vars, rm_vars, tr_vars, risk_manager, pm_positions,
                        pm_last_trade_time, now, orders, bt_vars, paper_vars>>
    ELSE execute(signal, ohlcv, quantity, fill)

NextWiring ==
    \/ \E trader \in Traders, signal \in Signals, ohlcv \in {NoData, "candles"},
          quantity \in Quantities, fill \in Fills :
          execute_orders(trader, signal, ohlcv, quantity, fill)
    \/ \E price \in PMPrices \cup {NoPrice} : monitor_positions(price)
    \/ Tick

SpecWiring == InitLiveMode /\ [][NextWiring]_vars

\* ------------------------------------------------ one trader and its loop threads
NextTrader ==
    \/ start
    \/ stop
    \/ pause
    \/ resume
    \/ \E t \in Threads : LoopTest(t)
    \/ \E t \in Threads, raises \in BOOLEAN : RunStage(t, raises)
    \/ \E t \in Threads, raises \in BOOLEAN : Notify(t, raises)
    \/ \E t \in Threads : SetError(t)
    \/ \E t \in Threads : Wake(t)

SpecTrader == InitLiveMode /\ [][NextTrader]_vars

\* ----------------------------------------- main(): one of the three modes runs
Init == InitReplay \/ InitPaperMode \/ InitLiveMode

Next ==
    \/ trading_mode = "backtesting" /\ NextReplay
    \/ trading_mode = "paper" /\ NextPaper
    \/ trading_mode = "live" /\ NextLive

Spec == Init /\ [][Next]_vars

\* ======================================================================
\* Properties
\* ======================================================================
Finished == bt_pc \in {"raised", "returned"}

ItemsOf(d, k) == {e \in d : e.key = k}

RECURSIVE CountAction(_, _, _)
CountAction(history, symbol, action) ==
    IF history = <<>> THEN 0
    ELSE (IF history[1].symbol = symbol /\ history[1].action = action THEN 1 ELSE 0)
         + CountAction(Tail(history), symbol, action)

\* C1: after any sequence of execute, monitor and close operations every
\* symbol has at most one open position: the live table and the paper table
\* hold at most one item per symbol, the paper history has per symbol as many
\* BUY records as SELL records plus the open position, and the trades of a
\* replay never overlap each other or the position that is still open.
C1_AtMostOneOpen ==
    /\ Cardinality(ItemsOf(pm_positions, PMSymbol)) <= 1
    /\ \A symbol \in PaperSymbols :
          /\ Cardinality(ItemsOf(paper_positions, symbol)) <= 1
          /\ CountAction(paper_trade_history, symbol, "BUY")
               - CountAction(paper_trade_history, symbol, "SELL")
             = Cardinality(ItemsOf(paper_positions, symbol))
    /\ \A i \in 1..Len(bt_trades) :
          /\ bt_trades[i].entry_time < bt_trades[i].exit_time
          /\ i > 1 => bt_trades[i - 1].exit_time < bt_trades[i].entry_time
          /\ bt_position # None => bt_trades[i].exit_time < bt_position.entry_time

\* a symbol was bought, sold and bought again, a further BUY was refused,
\* and the other symbol is open too
C1_Witness ==
    /\ trading_mode = "paper"
    /\ Len(paper_trade_history) = 4
    /\ Cardinality(paper_positions) = 2
    /\ CountAction(paper_trade_history, "BTC/USDT", "BUY") = 2
    /\ CountAction(paper_trade_history, "BTC/USDT", "SELL") = 1

\* C2: execute opens a position only from state NONE: a step that starts
\* with a position open and is not a close leaves the tracked position as it
\* was and sends no order.
C2_OpenOnlyFromNone ==
    [][(DictHas(pm_positions, PMSymbol) /\ DictHas(pm_positions', PMSymbol))
         => (pm_positions' = pm_positions /\ orders' = orders)]_vars

\* realized notional PnL of a ledger, in cents
RECURSIVE SumNotional(_)
SumNotional(ts) ==
    IF ts = <<>> THEN 0
    ELSE RoundDiv(ts[1].amount * (ts[1].exit_price - ts[1].entry_price), 100)
         + SumNotional(Tail(ts))

\* entry and exit commission of every trade of a ledger, in cents
RECURSIVE SumCommission(_, _)
SumCommission(ts, fee) ==
    IF ts = <<>> THEN 0
    ELSE RoundDiv(RoundDiv(ts[1].amount * ts[1].entry_price, 100) * fee, 1000)
         + RoundDiv(RoundDiv(ts[1].amount * ts[1].exit_price, 100) * fee, 1000)
         + SumCommission(Tail(ts), fee)

\* entry commission of the position still open, in cents
OpenCommission(position, fee) ==
    IF position = None THEN 0
    ELSE RoundDiv(RoundDiv(position.amount * position.entry_price, 100) * fee, 1000)

\* C3: the final balance of a run equals initial_capital plus the realized
\* notional PnL of the ledger minus every commission charged.
C3_BalanceReconciles ==
    Finished =>
        Abs(bt_balance
            - (InitialCapital + SumNotional(bt_trades)
               - SumCommission(bt_trades, Get(bt_params, "fee_pct"))
               - OpenCommission(bt_position, Get(bt_params, "fee_pct")))) <= Tol

\* the rows BUY@100, HOLD, HOLD, SELL@110, the price unchanged until the SELL
ScenarioRows == <<Row("BUY", 100), Row("HOLD", 100), Row("HOLD", 100), Row("SELL", 110)>>

\* C4: replaying BUY@100, HOLD, HOLD, SELL@110 with capital 10,000,
\* position_size_pct 20 and fee_pct 0.1 yields one trade 100 -> 110 with
\* pnl_pct about 10 and a final balance of about 10,196.
C4_EndToEnd ==
    (/\ Finished
     /\ market_data = ScenarioRows
     /\ Get(bt_params, "position_size_pct") = 200
     /\ Get(bt_params, "fee_pct") = 1)
    => /\ Len(bt_trades) = 1
       /\ bt_trades[1].entry_price = 100
       /\ bt_trades[1].exit_price = 110
       /\ Abs(bt_trades[1].pnl_pct - 100000) <= 100
       /\ Abs(bt_balance - 1019600) <= 100

\* an execute step of the position manager
ExecuteStep ==
    \E signal \in Signals, ohlcv \in {NoData, "candles"}, quantity \in Quantities,
       fill \in Fills : execute(signal, ohlcv, quantity, fill)

Throttled(symbol) ==
    /\ DictHas(pm_last_trade_time, symbol)
    /\ now - DictGet(pm_last_trade_time, symbol, 0) < min_trade_interval

\* C5: an execute made less than min_trade_interval after execute opened a
\* position sends no order and leaves positions and last_trade_time unchanged.
C5_Throttle ==
    [][(Throttled(PMSymbol) /\ ExecuteStep)
         => (orders' = orders /\ pm_positions' = pm_positions
             /\ pm_last_trade_time' = pm_last_trade_time)]_vars

\* a position was opened, the clock has moved on, the interval has not elapsed
C5_Witness ==
    /\ Throttled(PMSymbol)
    /\ now = DictGet(pm_last_trade_time, PMSymbol, 0) + TickSeconds
    /\ DictHas(pm_positions, PMSymbol)
    /\ Len(orders) = 1

\* the row the loop has just consumed
LastRow == market_data'[bt_row']

\* a replay step that consumes a row while a long position is open
C6_Step ==
    (bt_pc = "loop" /\ bt_row' = bt_row + 1 /\ bt_position # None)
    => LET price == LastRow.price
       IN /\ (price * 1000 > bt_position.stop_loss /\ price * 1000 < bt_position.take_profit)
               => (bt_position' = bt_position /\ bt_trades' = bt_trades)
          /\ (price * 1000 <= bt_position.stop_loss \/ price * 1000 >= bt_position.take_profit)
               => /\ bt_position' = None
                  /\ Len(bt_trades') = Len(bt_trades) + 1
                  /\ SubSeq(bt_trades', 1, Len(bt_trades)) = bt_trades
                  /\ LET t == bt_trades'[Len(bt_trades')]
                     IN /\ t.exit_price = price
                        /\ t.exit_time = bt_row'
                        /\ t.entry_price = bt_position.entry_price
                        /\ t.reason = IF price * 1000 <= bt_position.stop_loss
                                       THEN "stop_loss" ELSE "take_profit"

\* entry at 100 with stop_loss 95 and take_profit 110, then 98, 96, 94
C6_Rows(n) ==
    /\ bt_params = Moderada
    /\ bt_row = n
    /\ Len(market_data) >= n
    /\ market_data[1] = Row("BUY", 100)
    /\ n >= 2 => market_data[2].price = 98
    /\ n >= 3 => market_data[3].price = 96
    /\ n >= 4 => market_data[4].price = 94

C6_Instance ==
    /\ (C6_Rows(1) \/ C6_Rows(2) \/ C6_Rows(3))
         => (/\ bt_trades = <<>>
             /\ bt_position # None
             /\ bt_position.stop_loss = 95000
             /\ bt_position.take_profit \in 110000..110001)
    /\ C6_Rows(4)
         => (/\ bt_position = None
             /\ Len(bt_trades) = 1
             /\ bt_trades[1].exit_price = 94
             /\ bt_trades[1].exit_time = 4
             /\ bt_trades[1].reason = "stop_loss")

\* C6: an open long position stays open on every bar whose price lies
\* strictly between stop_loss and take_profit and is closed, at the bar's
\* price, on the first bar at or below stop_loss (reason stop_loss) or at or
\* above take_profit (reason take_profit); entry 100, stop 95, take 110 and
\* prices 98, 96, 94 close only at 94 with reason stop_loss.
C6_StopTake == [][C6_Step]_vars /\ []C6_Instance

C6_Witness == C6_Rows(4) /\ Len(bt_trades) = 1 /\ bt_trades[1].reason = "stop_loss"

\* C7: a run with the parameters of the first run, over the same rows and on
\* the same instance, computes the ledger, equity curve, metrics and final
\* balance the first run computed, and the rows are the rows of the first run.
C7_Deterministic ==
    (Finished /\ bt_params = bt_first.params)
    => bt_first = Outcome(bt_params, bt_balance, bt_trades, bt_equity_curve,
                          bt_metrics, bt_report)

\* the third run on the instance has ended with the parameters of the first
C7_Witness ==
    /\ Finished
    /\ bt_runs = 3
    /\ bt_params = bt_first.params
    /\ Len(bt_trades) >= 1
    /\ bt_position # None

\* C8: fed the same steps from the same starting balance, the replay and the
\* paper mode hold a position at the same steps and show the same balance.
C8_SameSemantics ==
    bt_pc = "loop"
    => /\ (bt_position # None) <=> DictHas(paper_positions, LockSymbol)
       /\ Abs(bt_balance - paper_balance) <= Tol

\* C9: run_backtest terminates normally and returns a report.
C9_ReturnsReport == Finished => (bt_pc = "returned" /\ bt_report # "AttributeError")

ReturnPct(final_balance, initial_capital) ==
    RoundDiv((final_balance - initial_capital) * 100, initial_capital \div 10000)

\* C11: whatever the number of trades, and whether or not a position is
\* still open at the last bar, the reported total_return_pct is
\* (final_balance - initial_capital) / initial_capital * 100 for the balance
\* the run ended with.
C11_TotalReturn ==
    Finished => bt_metrics.total_return_pct = ReturnPct(bt_balance, InitialCapital)

\* C12: profit_factor is the sum of the winning pnl% over the absolute sum
\* of the losing pnl%; it is +infinity if and only if the losing sum is zero
\* and the winning sum is not, and it is 0 when the ledger is empty.
C12_ProfitFactor ==
    Finished =>
        LET total_profit == SumPnl(Winning(bt_trades))
            total_loss == Abs(SumPnl(Losing(bt_trades)))
        IN /\ bt_trades = <<>> => bt_metrics.profit_factor = Ratio(0)
           /\ total_loss > 0
                => bt_metrics.profit_factor = Ratio(RoundDiv(total_profit * 1000, total_loss))
           /\ bt_metrics.profit_factor = Inf <=> (total_loss = 0 /\ total_profit # 0)

\* the last generate_signal call reached the collaborator and got a prediction
Scored ==
    /\ sg_call # None
    /\ sg_models_manager # NoModels
    /\ DOMAIN sg_call.market_data # {}
    /\ DOMAIN MarketGet(sg_call.market_data, sg_call.symbol) # {}
    /\ IsPrediction(sg_call.answer)

\* the threshold the configuration gives for a key, 0.6 when it gives none
Configured(key) ==
    IF "strategy" \in DOMAIN sg_config /\ key \in DOMAIN sg_config.strategy
    THEN sg_config.strategy[key]
    ELSE 6

\* C13: a prediction is mapped to BUY exactly when direction > 0 and
\* confidence >= buy_threshold, to SELL exactly when direction < 0 and
\* confidence >= sell_threshold, and to HOLD in every other case; both
\* thresholds are 0.6 when the configuration does not give them.
C13_Mapping ==
    Scored =>
        LET direction == IF "direction" \in DOMAIN sg_call.answer
                         THEN sg_call.answer.direction ELSE 0
            confidence == IF "confidence" \in DOMAIN sg_call.answer
                          THEN sg_call.answer.confidence ELSE 5
            buy == direction > 0 /\ confidence >= Configured("buy_threshold")
            sell == direction < 0 /\ confidence >= Configured("sell_threshold")
        IN /\ sg_signal.action \in {"BUY", "SELL", "HOLD"}
           /\ sg_signal.action = "BUY" <=> buy
           /\ sg_signal.action = "SELL" <=> sell
           /\ sg_signal.action = "HOLD" <=> (~buy /\ ~sell)

\* an upward prediction with confidence exactly 0.6 became a BUY under a
\* configuration without thresholds
C13_Witness ==
    /\ Scored
    /\ sg_config = NoStrategy
    /\ sg_call.answer = [direction |-> 1, confidence |-> 6]
    /\ sg_signal.action = "BUY"

\* the snapshot the last call was given for its symbol
CallSnapshot == MarketGet(sg_call.market_data, sg_call.symbol)

\* C14: generate_signal never raises, and it returns HOLD with confidence
\* 0.5 whenever the prediction is absent, the prediction collaborator fails,
\* or the snapshot of the symbol lacks a required field (price, volume).
C14_SafeDefault ==
    sg_call # None =>
        /\ DOMAIN sg_signal = {"symbol", "action", "confidence"}
        /\ (\/ sg_call.answer = NoPrediction
            \/ sg_call.answer = PredictRaises
            \/ ~({"price", "volume"} \subseteq DOMAIN CallSnapshot))
           => (sg_signal.action = "HOLD" /\ sg_signal.confidence = 5)

\* the last call built its close series itself
Synthesized ==
    /\ sg_call # None
    /\ sg_prepared # None
    /\ "close" \notin DOMAIN CallSnapshot

\* C15: whenever a synthesized price series stands in for missing history,
\* the prepared data or the signal tells a consumer so: no call on a snapshot
\* that has a close series yields the same prepared data and the same signal.
C15_SyntheticFlagged ==
    Synthesized =>
        \A snapshot \in Snapshots, answer \in Answers :
            "close" \in DOMAIN snapshot =>
                LET r == GenerateSignal(sg_call.symbol, sg_call.symbol :> snapshot, answer)
                IN r.prepared # sg_prepared \/ r.signal # sg_signal

\* C16: fixed-stop sizing returns account_balance * risk_fraction divided by
\* |entry_price - stop_loss| when the two prices differ, and the quantity 0,
\* without raising, when they are equal.
C16_FixedStop ==
    rm_sized # None =>
        /\ "exception" \notin DOMAIN rm_sized.position_size
        /\ rm_sized.entry_price # rm_sized.stop_loss
             => rm_sized.position_size.value
                  = RoundDiv(RoundDiv(rm_account_balance * 2, 100) * 100,
                             Abs(rm_sized.entry_price - rm_sized.stop_loss))
        /\ rm_sized.entry_price = rm_sized.stop_loss => rm_sized.position_size.value = 0

\* an account of 10,000 was sized for a stop at the entry price
C16_Witness ==
    /\ rm_sized # None
    /\ rm_account_balance = 1000000
    /\ rm_sized.entry_price = 100
    /\ rm_sized.stop_loss = 100
    /\ rm_sized.position_size.value = 0

\* (account_balance * risk_fraction) / volatility_estimate in units of the
\* asset, for a fraction and an estimate given in percent
VolatilitySize(account_balance, risk_pct, volatility_pct) ==
    RoundDiv(RoundDiv(account_balance * risk_pct, 100), volatility_pct)

\* C17: when execute asks the risk sizer for a size in volatility mode
\* (risk_per_trade 0.01, the volatility estimate 0.01 used without candles,
\* method "volatility"), the sizer returns account_balance * risk_fraction /
\* volatility_estimate and the position is opened with that quantity.
C17_VolatilitySizing ==
    [][\A signal \in Signals, quantity \in Quantities, fill \in Fills \ {NoOrder} :
          (/\ risk_manager = "RiskManager"
           /\ signal.signal # 0
           /\ CanTrade(PMSymbol)
           /\ execute(signal, NoData, quantity, fill))
          => (/\ pm_raised' = None
              /\ DictHas(pm_positions', PMSymbol)
              /\ DictGet(pm_positions', PMSymbol, None).quantity
                   = VolatilitySize(rm_account_balance, 1, 1))]_vars

\* the opposite side of a position's side
Opposite(side) == IF side = "BUY" THEN "SELL" ELSE "BUY"

\* C18: monitor_positions closes a LONG (BUY) position iff price <= stop_loss
\* or price >= take_profit and a SHORT (SELL) position iff price >= stop_loss
\* or price <= take_profit, with one closing order of the position's
\* quantity on the opposite side; a position whose price lies strictly
\* between its two levels stays open and unchanged and no order is sent.
C18_MonitorCloses ==
    [][\A price \in PMPrices :
          (DictHas(pm_positions, PMSymbol) /\ monitor_positions(price))
          => LET position == DictGet(pm_positions, PMSymbol, None)
                 closes == IF position.side = "BUY"
                           THEN price <= position.stop_loss \/ price >= position.take_profit
                           ELSE price >= position.stop_loss \/ price <= position.take_profit
             IN /\ closes <=> ~DictHas(pm_positions', PMSymbol)
                /\ closes => orders' = Append(orders, [symbol |-> PMSymbol,
                                                       side |-> Opposite(position.side),
                                                       type |-> "MARKET",
                                                       quantity |-> position.quantity])
                /\ ~closes => (pm_positions' = pm_positions /\ orders' = orders)]_vars

\* a filled BUY was followed by the closing SELL of monitor_positions
C18_Witness ==
    /\ ~DictHas(pm_positions, PMSymbol)
    /\ DictHas(pm_last_trade_time, PMSymbol)
    /\ Len(orders) = 2
    /\ orders[1].side = "BUY"
    /\ orders[2].side = "SELL"
    /\ orders[2].quantity = orders[1].quantity
    /\ pm_raised = None

\* C19: when the price read that monitor_positions needs fails for a symbol,
\* the call skips the symbol without raising, and the position is open and
\* unchanged afterwards.
C19_MonitorSkips ==
    [][(DictHas(pm_positions, PMSymbol) /\ monitor_positions(NoPrice))
         => (/\ pm_raised' = None
             /\ pm_positions' = pm_positions
             /\ orders' = orders)]_vars

\* a ledger record that carries entry, exit, quantity and exit reason
IsTrade(record) ==
    /\ "entry_price" \in DOMAIN record
    /\ "exit_price" \in DOMAIN record \/ "price" \in DOMAIN record
    /\ "amount" \in DOMAIN record \/ "quantity" \in DOMAIN record
    /\ "reason" \in DOMAIN record \/ "exit_reason" \in DOMAIN record

\* the ledger has grown by exactly one record, a Trade
OneTradeAppended(ledger, ledger_after) ==
    /\ Len(ledger_after) = Len(ledger) + 1
    /\ SubSeq(ledger_after, 1, Len(ledger)) = ledger
    /\ IsTrade(ledger_after[Len(ledger_after)])

\* the entries a ledger had are still there, in place
Kept(ledger, ledger_after) ==
    /\ Len(ledger_after) >= Len(ledger)
    /\ SubSeq(ledger_after, 1, Len(ledger)) = ledger

C20_Step ==
    /\ (bt_position # None /\ bt_position' = None)
         => OneTradeAppended(bt_trades, bt_trades')
    /\ \A symbol \in PaperSymbols :
          (DictHas(paper_positions, symbol) /\ ~DictHas(paper_positions', symbol))
          => OneTradeAppended(paper_trade_history, paper_trade_history')
    /\ (DictHas(pm_positions, PMSymbol) /\ ~DictHas(pm_positions', PMSymbol))
         => \/ OneTradeAppended(bt_trades, bt_trades')
            \/ OneTradeAppended(paper_trade_history, paper_trade_history')
    /\ Kept(bt_trades, bt_trades')
    /\ Kept(paper_trade_history, paper_trade_history')

\* C20: every transition of a position from OPEN to NONE, made by the
\* replay, by PaperTradeMode or by PositionManager._close_position, appends
\* exactly one Trade record (entry, exit, quantity, exit reason) to the trade
\* ledger, and no step changes or removes an entry a ledger already has.
C20_OneTradePerClose == [][C20_Step]_vars

\* C21: with prices > 0 and position_size_pct and the fee within [0, 100],
\* every balance the replay and PaperTradeMode reach, and every balance they
\* record, is >= 0.
C21_BalanceNonNegative ==
    /\ bt_balance >= 0
    /\ paper_balance >= 0
    /\ \A i \in 1..Len(bt_equity_curve) : bt_equity_curve[i].balance >= 0
    /\ \A i \in 1..Len(paper_trade_history) : paper_trade_history[i].balance_after >= 0

\* C22: an execute call made on behalf of one symbol's trader never creates,
\* replaces or closes a position of another symbol and never changes another
\* symbol's last-trade timer, the traders sharing the position manager as
\* load_traders wires them.
C22_NoCrossSymbol ==
    [][\A trader \in Traders, signal \in Signals, ohlcv \in {NoData, "candles"},
          quantity \in Quantities, fill \in Fills :
          execute_orders(trader, signal, ohlcv, quantity, fill)
          => \A symbol \in ExchangeSymbols \ {ExchangeSymbol(trader)} :
                /\ ItemsOf(pm_positions', symbol) = ItemsOf(pm_positions, symbol)
                /\ ItemsOf(pm_last_trade_time', symbol) = ItemsOf(pm_last_trade_time, symbol)]_vars

\* C23: when a trading cycle raises, the loop thread that caught the error
\* goes on to the sleep before the next cycle and the trader's state stays
\* as it was (active): the thread neither ends nor sets the state to error.
C23_SurvivesBadCycle ==
    [][\A t \in Threads :
          (tr_threads[t] = "except" /\ tr_threads'[t] # "except")
          => (tr_threads'[t] = "sleep" /\ tr_state' = tr_state)]_vars

\* a thread is inside _execute_cycle
InCycle(t) == tr_threads[t] \in StageNames

C24_Step ==
    /\ \A t \in Threads :
          /\ InCycle(t) => tr_threads'[t] \in StageNames \cup {"sleep", "except"}
          /\ (tr_threads[t] = "monitor" /\ tr_threads'[t] # "monitor")
                => tr_threads'[t] \in {"sleep", "except"}
          /\ (~InCycle(t) /\ InCycle(t)') => tr_state = "active"
    /\ (tr_state = "active" /\ tr_state' = "inactive") => tr_threads' = tr_threads
    /\ (tr_state \in {"inactive", "error"} /\ tr_state' \in {"active", "paused"})
          => (tr_state' = "active" /\ Len(tr_threads') = Len(tr_threads) + 1)

\* C24: a stop request does not touch a cycle in flight: a thread inside the
\* cycle goes on stage by stage to the sleep (or to the handler if a stage
\* raises) whatever the trader's state, a thread enters a cycle only while
\* the state is active, and a trader that is stopped (or has ended in error)
\* becomes active again only by start(), which creates a new thread.
C24_StopBetweenCycles == [][C24_Step]_vars

\* stop() was called while a cycle was in flight and the cycle has gone on
\* to its last stage
C24_Witness ==
    /\ tr_state = "inactive"
    /\ \E t \in Threads : tr_threads[t] = "monitor"

\* C25: at most one thread at a time is inside the trading cycle of a trader,
\* whatever start(), stop(), pause() and resume() calls were made.
C25_OneCycleAtATime ==
    Cardinality({t \in Threads : InCycle(t)}) <= 1

\* C27: whenever the trader's state is active, one of its loop threads has
\* not ended.
C27_ActiveHasLoop ==
    tr_state = "active" => \E t \in Threads : tr_threads[t] # "done"

\* C26: a step that closes the position of a symbol removes it from the table
\* and leaves the symbol's last-trade time at the time of the close (from
\* which _can_trade counts min_trade_interval before a new position).
C26_CloseResetsTimer ==
    [][(DictHas(pm_positions, PMSymbol) /\ ~DictHas(pm_positions', PMSymbol))
          => DictGet(pm_last_trade_time', PMSymbol, 0) = now]_vars

\* both tests of monitor_positions hold for the position at the price
BothHit(position, price) ==
    IF position.side = "BUY"
    THEN price <= position.stop_loss /\ price >= position.take_profit
    ELSE price >= position.stop_loss /\ price <= position.take_profit

C28_Step ==
    DictHas(pm_positions, PMSymbol)
    => LET position == DictGet(pm_positions, PMSymbol, None)
           closing == Order(PMSymbol, Opposite(position.side), position.quantity)
           once == ClosePosition(pm_positions, orders, PMSymbol)
           again == ClosePosition(once[1], once[2], PMSymbol)
       IN /\ once[2] = Append(orders, closing)
          /\ again = once
          /\ \A price \in PMPrices :
                (BothHit(position, price) /\ monitor_positions(price))
                => (orders' = Append(orders, closing) /\ pm_positions' = once[1])

\* C28: for an open position, _close_position sends one market order of the
\* position's quantity on the opposite side and a second _close_position of
\* the symbol changes nothing; a monitor_positions pass in which both the
\* stop-loss and the take-profit test hold appends exactly that one order.
C28_OneClosingOrder == [][C28_Step]_vars

\* an open long position whose stop-loss lies above its take-profit, so that
\* both tests hold at its entry price, with room in the order log for the pass
C28_Witness ==
    /\ DictHas(pm_positions, PMSymbol)
    /\ LET position == DictGet(pm_positions, PMSymbol, None)
       IN /\ position.side = "BUY"
          /\ BothHit(position, position.entry_price)
    /\ Len(orders) < MaxOrders

\* what a BUY at the configured size costs: the stake plus its commission
BuyCost ==
    LET stake == RoundDiv(paper_balance * PaperGet(paper_config, "position_size_pct"), 1000)
    IN stake + RoundDiv(stake * PaperGet(paper_config, "fee_percentage"), 1000)

HasLong(symbol) ==
    /\ DictHas(paper_positions, symbol)
    /\ DictGet(paper_positions, symbol, None).direction = "long"

\* the signal cannot be carried out
Refused(symbol, action, price) ==
    \/ price = PriceError
    \/ action = "BUY" /\ DictHas(paper_positions, symbol)
    \/ action = "BUY" /\ BuyCost > paper_balance
    \/ action = "SELL" /\ ~HasLong(symbol)

\* C29: an execute_trade whose price lookup fails, whose BUY costs more than
\* the balance or meets an open position, or whose SELL meets no long
\* position leaves positions, balance and trade_history as they were.
C29_RefusedChangesNothing ==
    [][\A symbol \in PaperSymbols, action \in Actions, price \in Prices \cup {PriceError} :
          (Refused(symbol, action, price) /\ execute_trade(symbol, action, price))
          => /\ paper_positions' = paper_positions
             /\ paper_balance' = paper_balance
             /\ paper_trade_history' = paper_trade_history]_vars

\* one symbol is held and the other is not, after one BUY: a BUY of the first
\* and a SELL of the second are refused, as is any signal whose price fails
C29_Witness ==
    /\ HasLong("BTC/USDT")
    /\ ~DictHas(paper_positions, "ETH/USDT")
    /\ Len(paper_trade_history) = 1
    /\ paper_balance < PaperGet(paper_config, "initial_balance")

\* the price of the BUY that opened the position a SELL record closes: the
\* last BUY record of the symbol before record i
RECURSIVE EntryOf(_, _, _)
EntryOf(history, symbol, i) ==
    IF i = 0 THEN 0
    ELSE IF history[i].symbol = symbol /\ history[i].action = "BUY" THEN history[i].price
    ELSE EntryOf(history, symbol, i - 1)

\* the commission a record was charged: the fee on amount * price
Charged(record) ==
    RoundDiv(RoundDiv(record.amount * record.price, 100)
               * PaperGet(paper_config, "fee_percentage"), 1000)

\* the notional profit a SELL record realized: amount * (exit - entry)
Realized(history, i) ==
    IF history[i].action = "SELL"
    THEN RoundDiv(history[i].amount
                    * (history[i].price - EntryOf(history, history[i].symbol, i - 1)), 100)
    ELSE 0

\* the sum over the records 1..i of the realized profit less the commission
RECURSIVE NetFlow(_, _)
NetFlow(history, i) ==
    IF i = 0 THEN 0
    ELSE NetFlow(history, i - 1) + Realized(history, i) - Charged(history[i])

\* C30: calculate_equity() (the balance plus amount * entry_price of every
\* open position) equals the initial balance plus the realized notional
\* profit of the closed positions minus all the commissions charged.
C30_Conserved ==
    Abs(calculate_equity
          - (PaperGet(paper_config, "initial_balance")
               + NetFlow(paper_trade_history, Len(paper_trade_history)))) <= Tol

\* one position was closed at a price other than its entry and another is open
C30_Witness ==
    /\ paper_positions # {}
    /\ \E i \in 1..Len(paper_trade_history) :
          /\ paper_trade_history[i].action = "SELL"
          /\ Realized(paper_trade_history, i) # 0

====
